---- MODULE Spec2Model ----
(***************************************************************************)
(* A model of script.js: the vocabulary checker of the writing-support     *)
(* page.  The page keeps one active word list (currentWordList), one       *)
(* debounce timer, an editor, a word-list selector, a highlight area and a *)
(* word-count display.  loadWordList fetches a word list asynchronously,   *)
(* checkContent validates the editor text against the active word list.    *)
(*                                                                         *)
(* The tagger (compromise) is an external library: a document is modelled  *)
(* by what the tagger returns for it, a sequence of terms, each with its   *)
(* surface text, its tag set and the text its normalisation yields.        *)
(***************************************************************************)
EXTENDS Integers, Sequences, FiniteSets, TLC

(***************************************************************************)
(* Bounds of the model.                                                    *)
(***************************************************************************)
\* the largest number of part-of-speech tags on one term of ValidateSpec
MaxTags == 2
\* the longest allowed-label list of a word-list entry of ValidateSpec
MaxLabels == 2
\* timer ids are drawn from 1..MaxTimerId
MaxTimerId == 2

\* the longest text of DocSpec, in terms
MaxTerms == 3

(***************************************************************************)
(* JavaScript values.                                                      *)
(***************************************************************************)
\* A JSON value as response.json() delivers it: an object with own entries
\* <<key, labels>> (keys unique), or null.
Obj(entries) == [kind |-> "object", entries |-> entries]

JNull == [kind |-> "null", entries |-> {}]

\* let currentWordList = {};  and  currentWordList = {};  in the catch block
EmptyWordList == Obj({})

Keys(obj) == {e[1] : e \in obj.entries}

\* Property names every plain object inherits from Object.prototype.  A read
\* obj[key] of a key that is not an own property finds these.
ObjectPrototypeKeys ==
    {"constructor", "toString", "valueOf", "hasOwnProperty",
     "isPrototypeOf", "propertyIsEnumerable", "toLocaleString", "__proto__"}

\* The outcome of the read obj[key]:
\*   "throw"     obj is null (TypeError)
\*   "array"     an own entry: v is its label list
\*   "inherited" a truthy value found on the prototype chain (a function or
\*               Object.prototype itself): neither iterable nor an array
\*   "undefined" no such property
GetProp(obj, key) ==
    IF obj.kind = "null" THEN [k |-> "throw", v |-> <<>>]
    ELSE IF key \in Keys(obj)
         THEN [k |-> "array", v |-> (CHOOSE e \in obj.entries : e[1] = key)[2]]
    ELSE IF key \in ObjectPrototypeKeys THEN [k |-> "inherited", v |-> <<>>]
    ELSE [k |-> "undefined", v |-> <<>>]

\* String.prototype.toLowerCase on the surface texts of the model
toLowerCase(s) ==
    CASE s = "To" -> "to"
      [] s = "TO" -> "to"
      [] s = "Go" -> "go"
      [] s = "Went" -> "went"
      [] OTHER -> s

\* Array.prototype.includes on a label list
includes(seq, x) == \E i \in DOMAIN seq : seq[i] = x

(***************************************************************************)
(* The label mapping table.                                                *)
(***************************************************************************)
posMapping ==
    ("adverb" :> {"#Adverb"}) @@
    ("verb" :> {"#Verb"}) @@
    ("adjective" :> {"#Adjective"}) @@
    ("noun" :> {"#Noun"}) @@
    ("preposition" :> {"#Preposition"}) @@
    ("conjunction" :> {"#Conjunction"}) @@
    ("determiner" :> {"#Determiner"}) @@
    ("pronoun" :> {"#Pronoun"}) @@
    ("be-verb" :> {"#Copula"}) @@
    ("modal auxi" :> {"#Modal"}) @@
    ("interjection" :> {"#Interjection"}) @@
    ("do-verb" :> {"#Verb", "#Auxiliary"}) @@
    ("number" :> {"#Value", "#NumericValue", "#Cardinal", "#Ordinal"}) @@
    ("have-verb" :> {"#Verb", "#Auxiliary"}) @@
    ("infinitive-to" :> {"#Infinitive"})

\* posMapping[userLabel]: the own entry, else what the prototype chain holds
TargetTags(userLabel) ==
    IF userLabel \in DOMAIN posMapping
    THEN [k |-> "array", v |-> posMapping[userLabel]]
    ELSE IF userLabel \in ObjectPrototypeKeys THEN [k |-> "inherited", v |-> {}]
    ELSE [k |-> "undefined", v |-> {}]

\* compromiseTags.some(tag => targetCompromiseTags.includes('#' + tag))
SomeTagIncluded(compromiseTags, target) ==
    \E tag \in compromiseTags : ("#" \o tag) \in target

\* The for...of loop of isPosAllowed from the i-th label on.  A truthy target
\* that is not an array has no includes method: the first callback of some()
\* throws, and some() calls it if there is any tag at all.
RECURSIVE isPosAllowedFrom(_, _, _)
isPosAllowedFrom(compromiseTags, labels, i) ==
    IF i > Len(labels) THEN "invalid"
    ELSE LET target == TargetTags(labels[i]) IN
         CASE target.k = "undefined" ->
                  isPosAllowedFrom(compromiseTags, labels, i + 1)
           [] target.k = "inherited" ->
                  IF compromiseTags # {} THEN "throw"
                  ELSE isPosAllowedFrom(compromiseTags, labels, i + 1)
           [] OTHER ->
                  IF SomeTagIncluded(compromiseTags, target.v) THEN "valid"
                  ELSE isPosAllowedFrom(compromiseTags, labels, i + 1)

\* isPosAllowed(tags, allowedUserPosLabels); a value that is not iterable
\* makes for...of throw
isPosAllowed(compromiseTags, allowed) ==
    IF allowed.k = "inherited" THEN "throw"
    ELSE isPosAllowedFrom(compromiseTags, allowed.v, 1)

(***************************************************************************)
(* checkContent: the decision for one term.                                *)
(***************************************************************************)
\* IsCheckedWord without the test for 'Punctuation'
IsCheckedWordNoPunctuation(tags) ==
    "Word" \in tags /\ "Whitespace" \notin tags

\* tags.includes('Word') && !tags.includes('Punctuation') && !tags.includes('Whitespace')
IsCheckedWord(tags) ==
    "Word" \in tags /\ "Punctuation" \notin tags /\ "Whitespace" \notin tags

\* Lemma taken from the surface text alone
LemmaOfSurfaceText(term) == toLowerCase(term.text)

\* compromise(wordText).normalize({lemma: true}).text() || wordText.toLowerCase()
Lemma(term) == IF term.norm # "" THEN term.norm ELSE toLowerCase(term.text)

\* allowedUserPosLabels.includes(label) as the operand of &&: evaluated only
\* when the left operand is true, and then a value without includes throws
AndIncludes(left, allowed, label) ==
    IF ~left THEN "false"
    ELSE IF allowed.k = "inherited" THEN "throw"
    ELSE IF includes(allowed.v, label) THEN "true" ELSE "false"

\* ToRule replaced by the generic label match
ToRuleGeneric(tags, allowed) == isPosAllowed(tags, allowed)

\* the special rule for the word "to"
ToRule(tags, allowed) ==
    LET isInfTo == "Infinitive" \in tags
        isPrep == "Preposition" \in tags
        first == AndIncludes(isInfTo, allowed, "infinitive-to")
        second == AndIncludes(isPrep, allowed, "preposition")
    IN  CASE first = "throw" -> "throw"
          [] first = "true" -> "valid"
          [] second = "throw" -> "throw"
          [] second = "true" -> "valid"
          [] OTHER -> "invalid"

\* The body of the forEach callback up to isValid: "valid", "invalid", or
\* "throw" when the callback raises a TypeError.
TermValidity(term, wordList) ==
    IF ~IsCheckedWord(term.tags) THEN "valid"
    ELSE LET allowed == GetProp(wordList, Lemma(term)) IN
         CASE allowed.k = "throw" -> "throw"
           [] allowed.k = "undefined" -> "invalid"
           [] toLowerCase(term.text) = "to" -> ToRule(term.tags, allowed)
           [] OTHER -> isPosAllowed(term.tags, allowed)

\* escapeHtml on the surface texts of the model
escapeHtml(text) ==
    CASE text = "&" -> "&amp;"
      [] text = "<" -> "&lt;"
      [] text = ">" -> "&gt;"
      [] text = "\"" -> "&quot;"
      [] text = "'" -> "&#039;"
      [] text = "R&D" -> "R&amp;D"
      [] text = "&lt;" -> "&amp;lt;"
      [] OTHER -> text

\* One piece of htmlOutput: the escaped text, wrapped in the invalid-word
\* span or not.
Piece(term, validity) ==
    [text |-> escapeHtml(term.text), invalid |-> (validity = "invalid")]

\* terms.forEach(...) from the i-th term on, with the running wordCount and
\* htmlOutput.  A callback that throws ends checkContent before the display
\* is updated.
\* ForEachTerm counting only the words found valid
RECURSIVE ForEachTermCountingValid(_, _, _, _, _)
ForEachTermCountingValid(terms, i, wordCount, htmlOutput, wordList) ==
    IF i > Len(terms)
    THEN [status |-> "returned", wordCount |-> wordCount, html |-> htmlOutput]
    ELSE LET term == terms[i]
             validity == TermValidity(term, wordList)
             count == IF IsCheckedWord(term.tags) /\ validity = "valid"
                      THEN wordCount + 1 ELSE wordCount
         IN  IF validity = "throw"
             THEN [status |-> "threw", wordCount |-> 0, html |-> <<>>]
             ELSE ForEachTermCountingValid(terms, i + 1, count,
                              Append(htmlOutput, Piece(term, validity)), wordList)

\* ForEachTerm adding nothing to htmlOutput for a term that is not checked
RECURSIVE ForEachTermSkippingUnchecked(_, _, _, _, _)
ForEachTermSkippingUnchecked(terms, i, wordCount, htmlOutput, wordList) ==
    IF i > Len(terms)
    THEN [status |-> "returned", wordCount |-> wordCount, html |-> htmlOutput]
    ELSE LET term == terms[i]
             count == IF IsCheckedWord(term.tags) THEN wordCount + 1 ELSE wordCount
             validity == TermValidity(term, wordList)
         IN  IF validity = "throw"
             THEN [status |-> "threw", wordCount |-> 0, html |-> <<>>]
             ELSE ForEachTermSkippingUnchecked(terms, i + 1, count,
                      IF IsCheckedWord(term.tags)
                      THEN Append(htmlOutput, Piece(term, validity))
                      ELSE htmlOutput,
                      wordList)

RECURSIVE ForEachTerm(_, _, _, _, _)
ForEachTerm(terms, i, wordCount, htmlOutput, wordList) ==
    IF i > Len(terms)
    THEN [status |-> "returned", wordCount |-> wordCount, html |-> htmlOutput]
    ELSE LET term == terms[i]
             count == IF IsCheckedWord(term.tags) THEN wordCount + 1 ELSE wordCount
             validity == TermValidity(term, wordList)
         IN  IF validity = "throw"
             THEN [status |-> "threw", wordCount |-> 0, html |-> <<>>]
             ELSE ForEachTerm(terms, i + 1, count,
                              Append(htmlOutput, Piece(term, validity)), wordList)

\* CheckResult without the early return for a blank text
CheckResultNotReturningEarly(doc, wordList) ==
    ForEachTerm(doc.terms, 1, 0, <<>>, wordList)

\* checkContent() as a function of the editor text and the active word list:
\* what it writes to the display, or that it threw.
CheckResult(doc, wordList) ==
    IF doc.blank
    THEN [status |-> "returned", wordCount |-> 0, html |-> <<>>]
    ELSE ForEachTerm(doc.terms, 1, 0, <<>>, wordList)

(***************************************************************************)
(* The environment: the word-list files, and the texts a writer types.     *)
(***************************************************************************)
\* the file paths of WORDLIST_CONFIG, in its order
WORDLIST_CONFIG ==
    <<"wordlists/level1.json", "wordlists/level2.json",
      "wordlists/level3.json", "wordlists/level4.json">>

Files == {WORDLIST_CONFIG[i] : i \in DOMAIN WORDLIST_CONFIG}

\* The word list a file holds when it is well formed, in the documented
\* format { "lemma": ["userPos1", "userPos2"], ... }.  The files are not part
\* of the script; these contents differ from file to file in keys and labels.
FileWordList(file) ==
    CASE file = "wordlists/level1.json" ->
             Obj({<<"go", <<"verb">>>>})
      [] file = "wordlists/level2.json" ->
             Obj({<<"go", <<"verb", "noun">>>>, <<"to", <<"infinitive-to">>>>})
      [] file = "wordlists/level3.json" ->
             Obj({<<"to", <<"preposition">>>>, <<"went", <<"verb">>>>})
      [] OTHER ->
             Obj({<<"go", <<"verb">>>>, <<"to", <<"infinitive-to", "preposition">>>>,
                  <<"home", <<"noun">>>>})

\* What response.json() can deliver for a file: its word list, or, when the
\* file holds JSON of another shape, that value (null stands for these).
JsonValues(file) == {FileWordList(file), JNull}

\* A term as the tagger returns it: termData.text, Object.keys(termData.tags)
\* and the text normalize({lemma: true}) yields for the word ("" when empty).
Term(text, tags, norm) == [text |-> text, tags |-> tags, norm |-> norm]

\* An editor text: whether text.trim() is empty, and the tagger's terms.
Doc(blank, terms) == [blank |-> blank, terms |-> terms]

BlankDoc == Doc(TRUE, <<>>)

\* The texts of the event-driven specification.
Docs ==
    { BlankDoc,
      Doc(FALSE, <<Term("I", {"Word", "Pronoun"}, "i"),
                   Term("went", {"Word", "Verb"}, "go"),
                   Term("home", {"Word", "Noun"}, "home"),
                   Term(".", {"Punctuation"}, "")>>),
      Doc(FALSE, <<Term("went", {"Word", "Verb"}, "went")>>),
      Doc(FALSE, <<Term("Go", {"Word", "Verb"}, "")>>),
      Doc(FALSE, <<Term("To", {"Word", "Infinitive"}, "to"),
                   Term("go", {"Word", "Verb"}, "go")>>),
      Doc(FALSE, <<Term("constructor", {"Word", "Noun"}, "constructor")>>) }

(***************************************************************************)
(* The state of the page.                                                  *)
(***************************************************************************)
VARIABLES
    currentWordList,   \* let currentWordList
    debounceTimer,     \* let debounceTimer: 0 for null, else a timer id
    timers,            \* the timers set and neither fired nor cleared
    editorValue,       \* editor.value
    editorDisabled,    \* editor.disabled
    selectDisabled,    \* wordlistSelect.disabled
    selectValue,       \* wordlistSelect.value
    loadingShown,      \* loadingIndicator.style.display = 'inline'
    wordCountText,     \* the number in wordCountDisplay.textContent
    highlightHtml,     \* highlightArea.innerHTML, as its pieces
    loads,             \* the calls of loadWordList suspended at an await
    alertShown,        \* alert() was raised since the last load started
    lastLoad,          \* how the load that completed last ended
    passStatus         \* how the last call of checkContent ended

vars == <<currentWordList, debounceTimer, timers, editorValue, editorDisabled,
          selectDisabled, selectValue, loadingShown, wordCountText,
          highlightHtml, loads, alertShown, lastLoad, passStatus>>

displayVars == <<wordCountText, highlightHtml>>

controlVars == <<editorDisabled, selectDisabled, loadingShown>>

\* LoadStarted without the two assignments that disable selector and editor
LoadStartedNotDisabling(filePath) ==
    /\ loadingShown' = TRUE
    /\ UNCHANGED <<selectDisabled, editorDisabled>>
    /\ loads' = loads \cup {[file |-> filePath, phase |-> "fetch"]}
    /\ alertShown' = FALSE

\* loadWordList up to its first await: the indicator is shown, selector and
\* editor are disabled, and the call waits for fetch(filePath)
LoadStarted(filePath) ==
    /\ loadingShown' = TRUE
    /\ selectDisabled' = TRUE
    /\ editorDisabled' = TRUE
    /\ loads' = loads \cup {[file |-> filePath, phase |-> "fetch"]}
    /\ alertShown' = FALSE

\* The state when the DOMContentLoaded listener has run: the state variables
\* hold their initial values and the default word list is being loaded.
Init ==
    /\ currentWordList = EmptyWordList
    /\ debounceTimer = 0
    /\ timers = {}
    /\ editorValue = BlankDoc
    /\ selectValue = WORDLIST_CONFIG[1]
    /\ wordCountText = 0
    /\ highlightHtml = <<>>
    /\ loadingShown = TRUE
    /\ selectDisabled = TRUE
    /\ editorDisabled = TRUE
    /\ loads = {[file |-> WORDLIST_CONFIG[1], phase |-> "fetch"]}
    /\ alertShown = FALSE
    /\ lastLoad = "none"
    /\ passStatus = "none"

(***************************************************************************)
(* checkContent and the debounce timer.                                    *)
(***************************************************************************)
\* CheckContent with htmlOutput appended to the highlight area
CheckContentAppending(wordList) ==
    LET r == CheckResult(editorValue, wordList) IN
    /\ passStatus' = r.status
    /\ IF r.status = "returned"
       THEN /\ wordCountText' = r.wordCount
            /\ highlightHtml' = highlightHtml \o r.html
       ELSE UNCHANGED displayVars

\* The display after checkContent() ran on the editor text against wordList:
\* updated when it returned, left as it was when it threw.
CheckContent(wordList) ==
    LET r == CheckResult(editorValue, wordList) IN
    /\ passStatus' = r.status
    /\ IF r.status = "returned"
       THEN /\ wordCountText' = r.wordCount
            /\ highlightHtml' = r.html
       ELSE UNCHANGED displayVars

\* Debounced without clearTimeout(debounceTimer)
DebouncedNotClearing ==
    LET free == (1..MaxTimerId) \ timers
    IN  /\ free # {}
        /\ LET id == CHOOSE i \in free : \A j \in free : i <= j IN
           /\ debounceTimer' = id
           /\ timers' = timers \cup {id}

\* The function debounce returns: clearTimeout(debounceTimer), then
\* debounceTimer = setTimeout(...).  setTimeout returns an id no pending
\* timer has.
Debounced ==
    LET remaining == timers \ {debounceTimer}
        free == (1..MaxTimerId) \ remaining
    IN  /\ free # {}
        /\ LET id == CHOOSE i \in free : \A j \in free : i <= j IN
           /\ debounceTimer' = id
           /\ timers' = remaining \cup {id}

\* An 'input' event of the editor: the writer changed the text.  A disabled
\* textarea takes no input.
Input ==
    /\ ~editorDisabled
    /\ \E doc \in Docs : editorValue' = doc
    /\ Debounced
    /\ UNCHANGED <<currentWordList, selectValue, loads, alertShown, lastLoad,
                   passStatus>>
    /\ UNCHANGED displayVars
    /\ UNCHANGED controlVars

\* A pending timer fires after DEBOUNCE_DELAY: checkContent runs.  An
\* exception it throws is uncaught; nothing else changes.
TimerFire ==
    \E t \in timers :
        /\ timers' = timers \ {t}
        /\ CheckContent(currentWordList)
        /\ UNCHANGED <<currentWordList, debounceTimer, editorValue, selectValue,
                       loads, alertShown, lastLoad>>
        /\ UNCHANGED controlVars

(***************************************************************************)
(* loadWordList.                                                           *)
(***************************************************************************)
\* A 'change' event of the selector: the writer chose another word list.  A
\* disabled select cannot be changed.
SelectChange ==
    /\ ~selectDisabled
    /\ \E file \in Files :
        /\ file # selectValue
        /\ selectValue' = file
        /\ LoadStarted(file)
    /\ UNCHANGED <<currentWordList, debounceTimer, timers, editorValue,
                   lastLoad, passStatus>>
    /\ UNCHANGED displayVars

\* the finally block
Finally(load) ==
    /\ loadingShown' = FALSE
    /\ selectDisabled' = FALSE
    /\ editorDisabled' = FALSE
    /\ loads' = loads \ {load}

\* the catch block, then the finally block
Caught(load, how) ==
    /\ alertShown' = TRUE
    /\ currentWordList' = EmptyWordList
    /\ lastLoad' = how
    /\ Finally(load)

\* await fetch(filePath) rejects: the file cannot be reached
FetchRejects ==
    \E load \in loads :
        /\ load.phase = "fetch"
        /\ Caught(load, "rejected")
        /\ UNCHANGED <<debounceTimer, timers, editorValue, selectValue, passStatus>>
        /\ UNCHANGED displayVars

\* fetch resolves with a response whose ok is false: the error is thrown
FetchNotOk ==
    \E load \in loads :
        /\ load.phase = "fetch"
        /\ Caught(load, "httpError")
        /\ UNCHANGED <<debounceTimer, timers, editorValue, selectValue, passStatus>>
        /\ UNCHANGED displayVars

\* fetch resolves with an ok response: the call waits for response.json()
FetchOk ==
    \E load \in loads :
        /\ load.phase = "fetch"
        /\ loads' = (loads \ {load}) \cup {[load EXCEPT !.phase = "json"]}
        /\ UNCHANGED <<currentWordList, debounceTimer, timers, editorValue,
                       selectValue, alertShown, lastLoad, passStatus>>
        /\ UNCHANGED displayVars
        /\ UNCHANGED controlVars

\* await response.json() rejects: the body is not JSON
JsonRejects ==
    \E load \in loads :
        /\ load.phase = "json"
        /\ Caught(load, "parseError")
        /\ UNCHANGED <<debounceTimer, timers, editorValue, selectValue, passStatus>>
        /\ UNCHANGED displayVars

\* Assigned as a merge of the new entries into the old object
AssignedByMerge(old, value) ==
    IF value.kind = "null" \/ old.kind = "null" THEN value
    ELSE Obj(value.entries \cup {e \in old.entries : e[1] \notin Keys(value)})

\* currentWordList = await response.json(): the value of the variable after
\* the assignment
Assigned(old, value) == value

\* JsonResolves with checkContent() called before the assignment
JsonResolvesCheckingFirst ==
    \E load \in loads :
        /\ load.phase = "json"
        /\ \E value \in JsonValues(load.file) :
            /\ CheckContent(currentWordList)
            /\ IF CheckResult(editorValue, currentWordList).status = "returned"
               THEN /\ currentWordList' = Assigned(currentWordList, value)
                    /\ lastLoad' = "loaded"
                    /\ UNCHANGED alertShown
                    /\ Finally(load)
               ELSE Caught(load, "checkThrew")
        /\ UNCHANGED <<debounceTimer, timers, editorValue, selectValue>>

\* response.json() resolves: the value is assigned, checkContent runs on it,
\* and an exception of checkContent lands in the catch block.
JsonResolves ==
    \E load \in loads :
        /\ load.phase = "json"
        /\ \E value \in JsonValues(load.file) :
            LET wordList == Assigned(currentWordList, value) IN
            /\ CheckContent(wordList)
            /\ IF CheckResult(editorValue, wordList).status = "returned"
               THEN /\ currentWordList' = wordList
                    /\ lastLoad' = "loaded"
                    /\ UNCHANGED alertShown
                    /\ Finally(load)
               ELSE Caught(load, "checkThrew")
        /\ UNCHANGED <<debounceTimer, timers, editorValue, selectValue>>

Next ==
    \/ Input
    \/ TimerFire
    \/ SelectChange
    \/ FetchRejects
    \/ FetchNotOk
    \/ FetchOk
    \/ JsonRejects
    \/ JsonResolves

Spec == Init /\ [][Next]_vars

(***************************************************************************)
(* The validation of one term, over wide inputs.  ValidateSpec starts from *)
(* the states in which a word list is active, the writer has typed a text  *)
(* of one term and the debounce timer is pending; its one step is the      *)
(* timer firing.                                                           *)
(***************************************************************************)
RECURSIVE SubsetsUpTo(_, _)
SubsetsUpTo(S, n) ==
    IF n = 0 THEN {{}}
    ELSE LET smaller == SubsetsUpTo(S, n - 1) IN
         smaller \cup {s \cup {x} : s \in smaller, x \in S}

RECURSIVE SeqsUpTo(_, _)
SeqsUpTo(S, n) ==
    IF n = 0 THEN {<<>>}
    ELSE LET shorter == SeqsUpTo(S, n - 1) IN
         shorter \cup {Append(q, x) : q \in shorter, x \in S}

\* the tags that decide whether a term is checked at all
StructuralTags == {"Word", "Punctuation", "Whitespace"}

\* part-of-speech tags of the tagger
PosTags ==
    {"Infinitive", "Preposition", "Verb", "Auxiliary", "Adverb", "Modal", "Noun"}

ValidateTagSets ==
    {s \cup p : s \in SUBSET StructuralTags, p \in SubsetsUpTo(PosTags, MaxTags)}

\* labels a word-list file may use: keys of posMapping and other strings
ValidateLabels ==
    {"verb", "preposition", "infinitive-to", "adverb", "do-verb",
     "modal auxi", "modal-auxiliary", "constructor"}

\* surface text and normalised text of a word
ValidateWords ==
    {<<"to", "to">>, <<"To", "">>, <<"went", "go">>, <<"went", "went">>,
     <<"constructor", "constructor">>}

ValidateDocs ==
    {Doc(FALSE, <<Term(w[1], tags, w[2])>>) :
        w \in ValidateWords, tags \in ValidateTagSets}

\* the empty word list and the word lists of one entry
ValidateWordLists ==
    {EmptyWordList} \cup
    {Obj({<<key, labels>>}) :
        key \in {"to", "go"}, labels \in SeqsUpTo(ValidateLabels, MaxLabels)}

\* A word list was loaded while the editor was empty, then the writer typed.
ValidateInit ==
    /\ currentWordList \in ValidateWordLists
    /\ editorValue \in ValidateDocs
    /\ debounceTimer = 1
    /\ timers = {1}
    /\ selectValue = WORDLIST_CONFIG[1]
    /\ wordCountText = 0
    /\ highlightHtml = <<>>
    /\ loadingShown = FALSE
    /\ selectDisabled = FALSE
    /\ editorDisabled = FALSE
    /\ loads = {}
    /\ alertShown = FALSE
    /\ lastLoad = "loaded"
    /\ passStatus = "returned"

ValidateNext == TimerFire

ValidateSpec == ValidateInit /\ [][ValidateNext]_vars

\* ValidateSpec: the timer has fired, checkContent has run on the text
Validated == timers = {}

\* the one term of the text of ValidateSpec, its lemma and its word-list entry
TheTerm == editorValue.terms[1]

TheLemma == Lemma(TheTerm)

LemmaPresent == TheLemma \in Keys(currentWordList)

TheLabels == GetProp(currentWordList, TheLemma).v

\* checkContent returned and wrote the one term to the highlight area
Shown == passStatus = "returned" /\ Len(highlightHtml) = 1

MarkedValid == Shown /\ ~highlightHtml[1].invalid

MarkedInvalid == Shown /\ highlightHtml[1].invalid

(***************************************************************************)
(* One validation pass over a text of several terms: the state when the    *)
(* debounce timer of the last input event is pending, and the one step     *)
(* TimerFire.                                                              *)
(***************************************************************************)
\* terms the tagger returns: words, punctuation, whitespace, and texts with
\* characters escapeHtml replaces
DocTerms ==
    { Term("went", {"Word", "Verb"}, "go"),
      Term("To", {"Word", "Infinitive"}, "to"),
      Term("home", {"Word", "Noun"}, "home"),
      Term("constructor", {"Word", "Noun"}, "constructor"),
      Term("R&D", {"Word", "Noun"}, "r&d"),
      Term("&lt;", {"Word"}, ""),
      Term("&", {"Word", "Punctuation"}, ""),
      Term(".", {"Punctuation"}, ""),
      Term(" ", {"Whitespace"}, "") }

\* Editor texts: whether text.trim() is empty, and the terms compromise(text)
\* returns, or would return were it called.
DocTexts ==
    {Doc(blank, terms) : blank \in BOOLEAN, terms \in SeqsUpTo(DocTerms, MaxTerms)}

\* values currentWordList holds after a load: {}, a file's word list, null
DocWordLists ==
    {EmptyWordList, JNull} \cup {FileWordList(file) : file \in Files}

\* what an earlier pass left in wordCountDisplay and highlightArea
PriorDisplays ==
    { [wordCount |-> 0, html |-> <<>>],
      [wordCount |-> 1, html |-> <<[text |-> "go", invalid |-> TRUE]>>] }

\* A load has completed, the writer has typed, the timer is pending.
DocInit ==
    /\ currentWordList \in DocWordLists
    /\ editorValue \in DocTexts
    /\ debounceTimer = 1
    /\ timers = {1}
    /\ selectValue = WORDLIST_CONFIG[1]
    /\ \E d \in PriorDisplays :
          /\ wordCountText = d.wordCount
          /\ highlightHtml = d.html
    /\ loadingShown = FALSE
    /\ selectDisabled = FALSE
    /\ editorDisabled = FALSE
    /\ loads = {}
    /\ alertShown = FALSE
    /\ lastLoad = "loaded"
    /\ passStatus = "returned"

DocNext == TimerFire

DocSpec == DocInit /\ [][DocNext]_vars

(***************************************************************************)
(* Properties of the validation of one term (ValidateSpec).                *)
(***************************************************************************)
\* a term that is not checked: no 'Word' tag, or 'Punctuation' or 'Whitespace'
Exempt(tags) ==
    "Word" \notin tags \/ "Punctuation" \in tags \/ "Whitespace" \in tags

\* the surface text is "to" in some casing
SurfaceIsTo == TheTerm.text \in {"to", "To", "tO", "TO"}

\* C1: a term that lacks 'Word' or has 'Punctuation' or 'Whitespace' is
\* marked valid by checkContent, whatever the active word list holds.
C1_ExemptTermValid ==
    (Validated /\ Exempt(TheTerm.tags)) => MarkedValid

C1_Witness ==
    /\ Validated
    /\ TheTerm.tags = {"Word", "Punctuation"}
    /\ currentWordList = EmptyWordList
    /\ MarkedValid

\* C2: a checked term whose lemma is not a key of the active word list is
\* marked invalid, whatever its tags and surface text are.
C2_AbsentLemmaInvalid ==
    (Validated /\ ~Exempt(TheTerm.tags) /\ ~LemmaPresent) => MarkedInvalid

\* C3: a checked term "to" whose lemma is in the word list is valid exactly
\* when it is tagged 'Infinitive' and 'infinitive-to' is allowed, or tagged
\* 'Preposition' and 'preposition' is allowed; the label mapping plays no part.
C3_ToSpecialCase ==
    (Validated /\ ~Exempt(TheTerm.tags) /\ SurfaceIsTo /\ LemmaPresent) =>
        /\ Shown
        /\ MarkedValid <=>
              \/ "Infinitive" \in TheTerm.tags /\ includes(TheLabels, "infinitive-to")
              \/ "Preposition" \in TheTerm.tags /\ includes(TheLabels, "preposition")

C3_Witness ==
    /\ Validated
    /\ TheTerm.text = "To"
    /\ TheTerm.tags = {"Word", "Preposition"}
    /\ LemmaPresent
    /\ TheLabels = <<"infinitive-to">>
    /\ MarkedInvalid

\* the label has an entry in posMapping whose tags share a tag with tags
LabelMatches(label, tags) ==
    /\ label \in DOMAIN posMapping
    /\ \E tag \in tags : ("#" \o tag) \in posMapping[label]

\* the word list of the one entry lemma -> labels reordered by p
Reordered(p) ==
    Obj({<<TheLemma, [i \in DOMAIN TheLabels |-> TheLabels[p[i]]]>>})

\* C4: a checked term other than "to" whose lemma is in the word list is
\* valid exactly when some allowed label has a posMapping entry sharing a tag
\* with the term, and every order of the allowed labels gives the same result.
C4_GenericLabelMatch ==
    (Validated /\ ~Exempt(TheTerm.tags) /\ ~SurfaceIsTo /\ LemmaPresent) =>
        /\ Shown
        /\ MarkedValid <=>
              \E i \in DOMAIN TheLabels : LabelMatches(TheLabels[i], TheTerm.tags)
        /\ \A p \in Permutations(DOMAIN TheLabels) :
              TermValidity(TheTerm, Reordered(p)) =
              TermValidity(TheTerm, currentWordList)

\* the label mapping table as section 4.1 of the specification lists it
SpecLabelTags ==
    ("adverb" :> {"Adverb"}) @@
    ("verb" :> {"Verb"}) @@
    ("adjective" :> {"Adjective"}) @@
    ("noun" :> {"Noun"}) @@
    ("preposition" :> {"Preposition"}) @@
    ("conjunction" :> {"Conjunction"}) @@
    ("determiner" :> {"Determiner"}) @@
    ("pronoun" :> {"Pronoun"}) @@
    ("be-verb" :> {"Copula"}) @@
    ("modal-auxiliary" :> {"Modal"}) @@
    ("interjection" :> {"Interjection"}) @@
    ("do-verb" :> {"Verb", "Auxiliary"}) @@
    ("number" :> {"Value", "NumericValue", "Cardinal", "Ordinal"}) @@
    ("have-verb" :> {"Verb", "Auxiliary"}) @@
    ("infinitive-to" :> {"Infinitive"})

\* C5: posMapping has an entry for each of the fifteen labels with exactly
\* the listed tags, and a checked term other than "to" tagged 'Modal' whose
\* lemma allows ['modal-auxiliary'] is marked valid.
C5_LabelTable ==
    (/\ Validated
     /\ ~Exempt(TheTerm.tags)
     /\ ~SurfaceIsTo
     /\ "Modal" \in TheTerm.tags
     /\ LemmaPresent
     /\ TheLabels = <<"modal-auxiliary">>) =>
        /\ \A label \in DOMAIN SpecLabelTags :
              /\ label \in DOMAIN posMapping
              /\ posMapping[label] = {"#" \o tag : tag \in SpecLabelTags[label]}
        /\ MarkedValid

\* C6: a checked term other than "to" whose lemma is in the word list with
\* no allowed label, or only labels without a posMapping entry, is marked
\* invalid for every tag set, and checkContent does not throw.
C6_UnmappedLabelsNeverMatch ==
    (/\ Validated
     /\ ~Exempt(TheTerm.tags)
     /\ ~SurfaceIsTo
     /\ LemmaPresent
     /\ \A i \in DOMAIN TheLabels : TheLabels[i] \notin DOMAIN posMapping) =>
        /\ passStatus # "threw"
        /\ MarkedInvalid

(***************************************************************************)
(* Properties of loading (Spec).                                           *)
(***************************************************************************)
\* the last load to complete failed: the retrieval rejected, the status was
\* not OK, or the body did not parse as JSON
LoadFailed == lastLoad \in {"rejected", "httpError", "parseError"}

\* every checked term of doc is marked invalid in html
AllCheckedInvalid(doc, html) ==
    \/ doc.blank
    \/ /\ Len(html) = Len(doc.terms)
       /\ \A i \in DOMAIN doc.terms :
              ~Exempt(doc.terms[i].tags) => html[i].invalid

C7_AfterFailure ==
    (LoadFailed /\ loads = {}) =>
        /\ currentWordList = EmptyWordList
        /\ alertShown
        /\ ~editorDisabled
        /\ ~selectDisabled

C7_PassAfterFailure ==
    (LoadFailed /\ TimerFire) =>
        /\ passStatus' = "returned"
        /\ AllCheckedInvalid(editorValue, highlightHtml')

\* C7: when a load fails, then once it has completed the active word list is
\* empty, an alert has been raised and editor and selector are enabled; and
\* every validation pass run afterwards, until another load succeeds, marks
\* every checked term invalid.
C7_FailedLoad == []C7_AfterFailure /\ [][C7_PassAfterFailure]_vars

\* the values a successful load can deliver
Delivered == UNION {JsonValues(file) : file \in Files}

C8_WholeTable == currentWordList \in {EmptyWordList} \cup Delivered

C8_ReplacedByLoad ==
    currentWordList' # currentWordList =>
        \E load \in loads :
            /\ load \notin loads'
            /\ \/ currentWordList' = EmptyWordList
               \/ load.phase = "json" /\ currentWordList' \in JsonValues(load.file)

\* C8: in every reachable state the active word list is the empty one or
\* exactly the value one successful load delivered, and it changes only by
\* being replaced as a whole when a load completes.
C8_NeverMixed == []C8_WholeTable /\ [][C8_ReplacedByLoad]_vars

C8_Witness ==
    /\ currentWordList = FileWordList("wordlists/level3.json")
    /\ lastLoad = "loaded"
    /\ timers # {}
    /\ loads # {}

\* C9: a load of a malformed file fails: when the body does not parse as
\* JSON, or parses to a value that is no mapping from lemma to labels, the
\* active word list is the empty one after the load has completed, whatever
\* the editor holds.
C9_MalformedFileFails ==
    (loads = {} /\ lastLoad # "none") =>
        /\ lastLoad = "parseError" => currentWordList = EmptyWordList
        /\ currentWordList.kind = "object"

C10_DisabledWhileLoading ==
    loads # {} => (editorDisabled /\ selectDisabled)

C10_EnabledByCompletion ==
    /\ (\/ editorDisabled /\ ~editorDisabled'
        \/ selectDisabled /\ ~selectDisabled') =>
           (loads # {} /\ loads' = {} /\ ~editorDisabled' /\ ~selectDisabled')
    /\ (loads # {} /\ loads' = {}) => (~editorDisabled' /\ ~selectDisabled')

\* C10: whenever a load is outstanding, editor and selector are disabled;
\* they become enabled again only when the load completes, and they do so
\* whether it succeeded or failed.
C10_InputSuspended ==
    []C10_DisabledWhileLoading /\ [][C10_EnabledByCompletion]_vars

C10_Witness ==
    /\ loads # {}
    /\ lastLoad = "loaded"
    /\ timers # {}
    /\ editorDisabled
    /\ selectDisabled

\* C11: once no load is outstanding, the active word list is what the most
\* recently selected file delivered, or the empty one when that load ended
\* in the catch block; it is never what an earlier selection delivered.
C11_NoStaleWordList ==
    (loads = {} /\ lastLoad # "none") =>
        IF alertShown
        THEN currentWordList = EmptyWordList
        ELSE currentWordList \in JsonValues(selectValue)

C11_Witness ==
    /\ loads = {}
    /\ selectValue = "wordlists/level3.json"
    /\ currentWordList = FileWordList("wordlists/level3.json")
    /\ ~alertShown

\* what validating the editor text against the active word list yields
Validation == CheckResult(editorValue, currentWordList)

\* the display shows what Validation wrote
DisplayIsValidation ==
    /\ Validation.status = "returned"
    /\ wordCountText = Validation.wordCount
    /\ highlightHtml = Validation.html

C12_OneTimer ==
    /\ Cardinality(timers) <= 1
    /\ timers \subseteq {debounceTimer}

C12_Rescheduled ==
    /\ Input => (timers' = {debounceTimer'} /\ UNCHANGED displayVars)
    /\ TimerFire =>
          /\ timers' = {}
          /\ editorValue' = editorValue
          /\ passStatus' = Validation.status
          /\ passStatus' = "returned" =>
                 /\ wordCountText' = Validation.wordCount
                 /\ highlightHtml' = Validation.html

\* C12: at most one validation timer is pending; an input event cancels the
\* pending timer and schedules a new one, itself running no pass; the timer
\* that fires is the last one scheduled, leaves none pending, and its pass
\* validates the editor text of that moment.
C12_Debounce == []C12_OneTimer /\ [][C12_Rescheduled]_vars

C12_Witness ==
    /\ timers = {}
    /\ debounceTimer # 0
    /\ loads = {}
    /\ ~editorValue.blank
    /\ Len(editorValue.terms) = 4
    /\ DisplayIsValidation

\* a load completes through the end of the try block
LoadSucceeds == loads # {} /\ loads' = {} /\ lastLoad' = "loaded"

C13_CheckedAgainstNewList ==
    LoadSucceeds =>
        /\ editorValue' = editorValue
        /\ passStatus' = "returned"
        /\ wordCountText' = CheckResult(editorValue, currentWordList').wordCount
        /\ highlightHtml' = CheckResult(editorValue, currentWordList').html

\* C13: a load that succeeds runs one validation pass in the step that
\* installs the new word list, and the pass validates the text in the editor
\* against the new list, not the previous one.
C13_RevalidatedOnLoad == [][C13_CheckedAgainstNewList]_vars

C13_Witness ==
    /\ loads = {}
    /\ lastLoad = "loaded"
    /\ timers # {}
    /\ currentWordList = FileWordList("wordlists/level3.json")
    /\ Len(editorValue.terms) = 4
    /\ ~editorValue.blank
    /\ DisplayIsValidation
    /\ \E i \in DOMAIN highlightHtml : highlightHtml[i].invalid

\* the key the claim names: the normalised text, or the lower-cased surface
\* text when the normalised text is empty
NamedKey ==
    IF TheTerm.norm # "" THEN TheTerm.norm ELSE toLowerCase(TheTerm.text)

\* the word list is { key: [label] }
OnlyEntry(key, label) == currentWordList = Obj({<<key, <<label>>>>})

\* C18: the word list is read under the term's normalised text, or under its
\* lower-cased surface text when the normalised text is empty.  With the
\* word list {go: [verb]} a Verb-tagged "went" is valid when its normalised
\* text is "go" and invalid when it is "went"; "To" with no normalised text
\* is read under "to".
C18_LookupKey ==
    (Validated /\ ~Exempt(TheTerm.tags)) =>
        /\ (TheTerm.text = "went" /\ "Verb" \in TheTerm.tags /\ OnlyEntry("go", "verb")) =>
              /\ NamedKey = "go" => MarkedValid
              /\ NamedKey = "went" => MarkedInvalid
        /\ (NamedKey = "went" /\ Keys(currentWordList) = {"go"}) => MarkedInvalid
        /\ (TheTerm.text = "To" /\ TheTerm.norm = "" /\ "Preposition" \in TheTerm.tags
               /\ OnlyEntry("to", "preposition")) =>
              (NamedKey = "to" /\ MarkedValid)

C18_Witness ==
    /\ Validated
    /\ TheTerm = Term("went", {"Word", "Verb"}, "go")
    /\ OnlyEntry("go", "verb")
    /\ MarkedValid

(***************************************************************************)
(* Properties of one validation pass over a text (DocSpec).                *)
(***************************************************************************)
\* the terms of the text that count as words
CountedTerms ==
    {i \in DOMAIN editorValue.terms : ~Exempt(editorValue.terms[i].tags)}

\* the timer has fired on a non-blank text and checkContent returned
PassReturned == Validated /\ ~editorValue.blank /\ passStatus = "returned"

HtmlText(markup) ==
    CASE markup = "&amp;" -> "&"
      [] markup = "&lt;" -> "<"
      [] markup = "&gt;" -> ">"
      [] markup = "&quot;" -> "\""
      [] markup = "&#039;" -> "'"
      [] markup = "R&amp;D" -> "R&D"
      [] markup = "&amp;lt;" -> "&lt;"
      [] OTHER -> markup

C16_BlankText ==
    (Validated /\ editorValue.blank) =>
        /\ passStatus = "returned"
        /\ wordCountText = 0
        /\ highlightHtml = <<>>

C16_Witness ==
    /\ Validated
    /\ editorValue.blank
    /\ editorValue.terms # <<>>
    /\ \E i \in DOMAIN editorValue.terms : ~Exempt(editorValue.terms[i].tags)
    /\ currentWordList = JNull
    /\ wordCountText = 0
    /\ highlightHtml = <<>>

(***************************************************************************)
(* Properties of passes and loads in the event-driven page (Spec).         *)
(***************************************************************************)
C17_SecondPass ==
    TimerFire =>
        /\ UNCHANGED <<currentWordList, editorValue>>
        /\ DisplayIsValidation =>
              (passStatus' = "returned" /\ UNCHANGED displayVars)

\* C17: a pass changes neither the word list nor the editor text, and a pass
\* run when the display already shows what a pass over the same text and
\* word list wrote leaves the same word count and the same annotations.
C17_Idempotent == [][C17_SecondPass]_vars

C17_Witness ==
    /\ timers # {}
    /\ loads = {}
    /\ ~editorValue.blank
    /\ Len(editorValue.terms) = 4
    /\ currentWordList = FileWordList("wordlists/level4.json")
    /\ DisplayIsValidation
    /\ wordCountText = 3

C19_NoTimerPass == loads # {} => ~TimerFire

\* C19: while a load is outstanding the debounce timer runs no validation
\* pass, also when the timer was set before the load started.
C19_NoPassWhileLoading == [][C19_NoTimerPass]_vars

\* C20: when no load is outstanding and no timer is pending, the word count
\* and the annotations on display are those of validating the text in the
\* editor against the active word list, after a load that succeeded and
\* after one that failed.  Stated where the last pass returned and the
\* validation has a result, so that no pass that threw is involved.
C20_DisplayConsistent ==
    (/\ loads = {} /\ timers = {}
     /\ passStatus = "returned" /\ Validation.status = "returned") =>
        /\ wordCountText = Validation.wordCount
        /\ highlightHtml = Validation.html

====
